---- MODULE Spec2Model ----
(***************************************************************************)
(* A model of DomExtension (src/domextension.py): the XML normalizer       *)
(* (_xml_to_dict), the attribute coercion, the named-element registry      *)
(* (ElementAccessor) and the recursive widget builder                      *)
(* (_build_ui_from_dict), driven by load_ui.                               *)
(*                                                                         *)
(* Python strings on which the code does character work (endswith,         *)
(* startswith, slicing, int(), float(), lower()) are sequences of          *)
(* one-character strings.  Strings that are only compared for equality     *)
(* (widget kinds, the opaque payload of a text) are TLA+ strings or        *)
(* one-token sequences.                                                    *)
(***************************************************************************)
EXTENDS Integers, Sequences, FiniteSets, TLC

VARIABLES
    pc,                \* "idle" | "building" | "done" : position of the caller of the operation
    input,             \* the argument of the operation under check (string, element, or document)
    output,            \* the value the pure operations produced
    ui_file_path,      \* load_ui's argument
    definition,        \* the canonical node tree handed to _build_ui_from_dict (mutated in place)
    stack,             \* the active calls of _build_ui_from_dict, outermost first
    pending,           \* what the call that just ended hands to its caller: a return value or an exception
    regions,           \* the scoped child-content regions currently open, outermost first
    named_elements,    \* self._named_elements : name -> widget
    controller_attrs,  \* attributes set on the controller by setattr(self, ...)
    log,               \* the calls made on the toolkit and the registry, in order
    result,            \* how load_ui ended
    last_read          \* the last read of the registry and what it gave

vars == <<pc, input, output, ui_file_path, definition, stack, pending, regions,
          named_elements, controller_attrs, log, result, last_read>>

-----------------------------------------------------------------------------
(* Bounds of the model *)

\* longest raw attribute string drawn over the alphabet Chars
MaxStrLen == 3
\* most child nodes of one XML element in the documents drawn
MaxXmlKids == 2
\* most children of one node in the JSON documents drawn
MaxKids == 2

-----------------------------------------------------------------------------
(* Python values *)

PyNone == [t |-> "none"]
PyInt(n) == [t |-> "int", v |-> n]
PyFloat(f) == [t |-> "float", v |-> f]
PyBool(b) == [t |-> "bool", v |-> b]
PyStr(s) == [t |-> "str", v |-> s]
PyDict(items) == [t |-> "dict", v |-> items]
PyList(items) == [t |-> "list", v |-> items]
PyCallable(f) == [t |-> "callable", v |-> f]
Widget(path) == [t |-> "widget", v |-> path]

IsStr(x) == x.t = "str"
IsDict(x) == x.t = "dict"

-----------------------------------------------------------------------------
(* str methods *)

EndsWith(s, suffix) ==
    /\ Len(s) >= Len(suffix)
    /\ SubSeq(s, Len(s) - Len(suffix) + 1, Len(s)) = suffix

StartsWith(s, prefix) ==
    /\ Len(s) >= Len(prefix)
    /\ SubSeq(s, 1, Len(prefix)) = prefix

\* s[n:]
SliceFrom(s, n) == SubSeq(s, n + 1, Len(s))

UpperLetters == <<"A", "E", "F", "I", "L", "N", "R", "S", "T", "U", "Y">>
LowerLetters == <<"a", "e", "f", "i", "l", "n", "r", "s", "t", "u", "y">>

LowerChar(c) ==
    IF \E i \in 1..Len(UpperLetters) : UpperLetters[i] = c
    THEN LowerLetters[CHOOSE i \in 1..Len(UpperLetters) : UpperLetters[i] = c]
    ELSE c

Lower(s) == [i \in 1..Len(s) |-> LowerChar(s[i])]

Whitespace == {" ", "\t", "\n"}

RECURSIVE LStrip(_)
LStrip(s) ==
    IF s # <<>> /\ Head(s) \in Whitespace THEN LStrip(Tail(s)) ELSE s

RECURSIVE RStrip(_)
RStrip(s) ==
    IF s # <<>> /\ s[Len(s)] \in Whitespace THEN RStrip(SubSeq(s, 1, Len(s) - 1)) ELSE s

Strip(s) == RStrip(LStrip(s))

-----------------------------------------------------------------------------
(* int(value) and float(value) on a str *)

Digits == {"0", "1", "2", "3", "4", "5", "6", "7", "8", "9"}

DigitVal(c) ==
    CASE c = "0" -> 0 [] c = "1" -> 1 [] c = "2" -> 2 [] c = "3" -> 3 [] c = "4" -> 4
      [] c = "5" -> 5 [] c = "6" -> 6 [] c = "7" -> 7 [] c = "8" -> 8 [] c = "9" -> 9

\* a run of digits, single underscores allowed between two digits
IsDigitGroup(s) ==
    /\ Len(s) > 0
    /\ \A i \in 1..Len(s) : s[i] \in Digits \cup {"_"}
    /\ s[1] \in Digits
    /\ s[Len(s)] \in Digits
    /\ \A i \in 1..(Len(s) - 1) : ~(s[i] = "_" /\ s[i + 1] = "_")

RECURSIVE DigitsValue(_, _)
DigitsValue(s, acc) ==
    IF s = <<>> THEN acc
    ELSE IF Head(s) = "_" THEN DigitsValue(Tail(s), acc)
    ELSE DigitsValue(Tail(s), acc * 10 + DigitVal(Head(s)))

RECURSIVE CountDigits(_)
CountDigits(s) ==
    IF s = <<>> THEN 0
    ELSE (IF Head(s) \in Digits THEN 1 ELSE 0) + CountDigits(Tail(s))

HasSign(s) == s # <<>> /\ Head(s) \in {"+", "-"}
Unsigned(s) == IF HasSign(s) THEN Tail(s) ELSE s
IsNegative(s) == s # <<>> /\ Head(s) = "-"

\* int(value) does not raise ValueError
IntParses(value) == IsDigitGroup(Unsigned(Strip(value)))

IntValue(value) ==
    LET s == Strip(value)
        n == DigitsValue(Unsigned(s), 0)
    IN IF IsNegative(s) THEN 0 - n ELSE n

\* position of the exponent marker, 0 when there is none
ExpPos(s) ==
    IF \E i \in 1..Len(s) : s[i] \in {"e", "E"}
    THEN CHOOSE i \in 1..Len(s) : s[i] \in {"e", "E"} /\ \A j \in 1..(i - 1) : s[j] \notin {"e", "E"}
    ELSE 0

DotPos(s) ==
    IF \E i \in 1..Len(s) : s[i] = "."
    THEN CHOOSE i \in 1..Len(s) : s[i] = "." /\ \A j \in 1..(i - 1) : s[j] # "."
    ELSE 0

Mantissa(s) == IF ExpPos(s) = 0 THEN s ELSE SubSeq(s, 1, ExpPos(s) - 1)
Exponent(s) == IF ExpPos(s) = 0 THEN <<>> ELSE SubSeq(s, ExpPos(s) + 1, Len(s))
IntPart(m) == IF DotPos(m) = 0 THEN m ELSE SubSeq(m, 1, DotPos(m) - 1)
FracPart(m) == IF DotPos(m) = 0 THEN <<>> ELSE SubSeq(m, DotPos(m) + 1, Len(m))

IsMantissa(m) ==
    IF DotPos(m) = 0 THEN IsDigitGroup(m)
    ELSE /\ IntPart(m) = <<>> \/ IsDigitGroup(IntPart(m))
         /\ FracPart(m) = <<>> \/ IsDigitGroup(FracPart(m))
         /\ IntPart(m) # <<>> \/ FracPart(m) # <<>>

IsDecimalFloat(s) ==
    /\ IsMantissa(Mantissa(s))
    /\ ExpPos(s) = 0 \/ IsDigitGroup(Unsigned(Exponent(s)))

SpecialFloats == { <<"i", "n", "f">>, <<"n", "a", "n">>,
                   <<"i", "n", "f", "i", "n", "i", "t", "y">> }

\* float(value) does not raise ValueError
FloatParses(value) ==
    LET u == Unsigned(Strip(value))
    IN Lower(u) \in SpecialFloats \/ IsDecimalFloat(u)

\* mant * 10^exp with the trailing zeros of mant moved into exp
RECURSIVE Normalize(_, _)
Normalize(mant, exp) ==
    IF mant = 0 THEN <<0, 0>>
    ELSE IF mant % 10 = 0 THEN Normalize(mant \div 10, exp + 1)
    ELSE <<mant, exp>>

\* the float as sign * mant * 10^exp (mant without trailing zeros), an infinity, or nan
FloatValue(value) ==
    LET s == Strip(value)
        u == Unsigned(s)
        sign == IF IsNegative(s) THEN -1 ELSE 1
        m == Mantissa(u)
        e == Exponent(u)
        ev == IF e = <<>> THEN 0
              ELSE IF IsNegative(e) THEN 0 - DigitsValue(Unsigned(e), 0)
              ELSE DigitsValue(Unsigned(e), 0)
        digits == DigitsValue(IntPart(m) \o FracPart(m), 0)
        norm == Normalize(digits, ev - CountDigits(FracPart(m)))
    IN IF Lower(u) = <<"n", "a", "n">> THEN [k |-> "nan", sign |-> sign, mant |-> 0, exp |-> 0]
       ELSE IF Lower(u) \in SpecialFloats THEN [k |-> "inf", sign |-> sign, mant |-> 0, exp |-> 0]
       ELSE [k |-> "finite", sign |-> sign, mant |-> norm[1], exp |-> norm[2]]

StrTrue == <<"t", "r", "u", "e">>
StrFalse == <<"f", "a", "l", "s", "e">>

\* a plausible slip: the float stage tried before the int stage
XmlCoerceFloatFirst(value) ==
    IF FloatParses(value) THEN PyFloat(FloatValue(value))
    ELSE IF IntParses(value) THEN PyInt(IntValue(value))
    ELSE IF Lower(value) \in {StrTrue, StrFalse} THEN PyBool(Lower(value) = StrTrue)
    ELSE PyStr(value)

\* the try/except nest that converts one attribute value
XmlCoerce(value) ==
    IF IntParses(value) THEN PyInt(IntValue(value))
    ELSE IF FloatParses(value) THEN PyFloat(FloatValue(value))
    ELSE IF Lower(value) \in {StrTrue, StrFalse} THEN PyBool(Lower(value) = StrTrue)
    ELSE PyStr(value)

-----------------------------------------------------------------------------
(* dict: an insertion-ordered sequence of <<key, value>> pairs, keys unique *)

Has(d, k) == \E i \in 1..Len(d) : d[i][1] = k
Get(d, k) == d[CHOOSE i \in 1..Len(d) : d[i][1] = k][2]
GetOr(d, k, default) == IF Has(d, k) THEN Get(d, k) ELSE default
IsNotKey(p, k) == p[1] # k
Pop(d, k) == SelectSeq(d, LAMBDA p : IsNotKey(p, k))
Put(d, k, v) ==
    IF Has(d, k) THEN [i \in 1..Len(d) |-> IF d[i][1] = k THEN <<k, v>> ELSE d[i]]
    ELSE Append(d, <<k, v>>)
RECURSIVE Update(_, _)
Update(d, other) ==
    IF other = <<>> THEN d
    ELSE Update(Put(d, Head(other)[1], Head(other)[2]), Tail(other))

-----------------------------------------------------------------------------
(* The XML side: ET.parse and _xml_to_dict *)

\* '{http://schemas.ui/name}Name', the expanded name of x:Name
X_NAMESPACE == <<"{http://schemas.ui/name}", "N", "a", "m", "e">>

Element(tag, attrib, children) ==
    [tag |-> PyStr(tag), attrib |-> attrib, children |-> children]
\* ET.Comment and ET.ProcessingInstruction: the tag is a function, not a str
CommentNode == [tag |-> [t |-> "function", v |-> "Comment"], attrib |-> <<>>, children |-> <<>>]
PINode == [tag |-> [t |-> "function", v |-> "ProcessingInstruction"], attrib |-> <<>>, children |-> <<>>]

IsElement(e) == IsStr(e.tag)
IsNode(x) == "type" \in DOMAIN x

\* ET.parse(path).getroot(): the default parser's TreeBuilder inserts neither
\* comments nor processing instructions into the tree
RECURSIVE ETParse(_)
ETParse(doc) ==
    LET kept == SelectSeq(doc.children, IsElement)
    IN [doc EXCEPT !.children = [i \in 1..Len(kept) |-> ETParse(kept[i])]]

CoerceAttribs(attribs) ==
    [i \in 1..Len(attribs) |-> <<attribs[i][1], XmlCoerce(attribs[i][2])>>]

\* a plausible slip: the attributes stored without the `if attribs:` test
RECURSIVE XmlToDictAlwaysAttributes(_)
XmlToDictAlwaysAttributes(element) ==
    IF ~IsElement(element) THEN PyNone
    ELSE LET attribs == Pop(element.attrib, X_NAMESPACE)
             converted == [i \in 1..Len(element.children) |->
                              XmlToDictAlwaysAttributes(element.children[i])]
         IN ("type" :> element.tag.v)
            @@ (IF Has(element.attrib, X_NAMESPACE)
                THEN ("name" :> Get(element.attrib, X_NAMESPACE)) ELSE <<>>)
            @@ ("attributes" :> PyDict(CoerceAttribs(attribs)))
            @@ (IF Len(element.children) > 0
                THEN ("children" :> SelectSeq(converted, IsNode)) ELSE <<>>)

RECURSIVE XmlToDict(_)
XmlToDict(element) ==
    IF ~IsElement(element) THEN PyNone
    ELSE LET attribs == Pop(element.attrib, X_NAMESPACE)
             converted == [i \in 1..Len(element.children) |-> XmlToDict(element.children[i])]
         IN ("type" :> element.tag.v)
            @@ (IF Has(element.attrib, X_NAMESPACE)
                THEN ("name" :> Get(element.attrib, X_NAMESPACE)) ELSE <<>>)
            @@ (IF attribs # <<>>
                THEN ("attributes" :> PyDict(CoerceAttribs(attribs))) ELSE <<>>)
            @@ (IF Len(element.children) > 0
                THEN ("children" :> SelectSeq(converted, IsNode)) ELSE <<>>)

-----------------------------------------------------------------------------
(* State shared by the specifications *)

NoPending == [k |-> "none"]
NoResult == [k |-> "none"]
NoRead == [k |-> "none"]

\* the controller right after on_startup, before any load_ui
BuilderIdle ==
    /\ ui_file_path = <<>>
    /\ definition = PyNone
    /\ stack = <<>>
    /\ pending = NoPending
    /\ regions = <<>>
    /\ named_elements = <<>>
    /\ controller_attrs = <<>>
    /\ log = <<>>
    /\ result = NoResult
    /\ last_read = NoRead

builderVars == <<ui_file_path, definition, stack, pending, regions, named_elements,
                 controller_attrs, log, result, last_read>>

SeqsUpTo(S, n) == UNION {[1..k -> S] : k \in 0..n}

-----------------------------------------------------------------------------
(* Specification SpecCoerce: the coercion of one raw attribute string *)

Chars == {"0", "1", "-", "+", ".", "e", "_", " "}

Literals ==
    { <<"4", "2">>, <<"3", ".", "1", "4">>, <<"1", "e", "3">>, <<"1", "E", "3">>,
      <<"1", ".", "0">>, <<"1", "_", "0", "0", "0">>, <<"-", "1", ".", "5", "e", "-", "2">>,
      <<"t", "r", "u", "e">>, <<"T", "R", "U", "E">>, <<"F", "a", "l", "s", "e">>,
      <<"f", "a", "l", "s", "e">>, <<"t", "r", "u">>, <<" ", "t", "r", "u", "e">>,
      <<"y", "e", "s">>, <<"i", "n", "f">>, <<"-", "I", "n", "f">>, <<"n", "a", "n">>,
      <<"N", "a", "N">>, <<"I", "n", "f", "i", "n", "i", "t", "y">>,
      <<"h", "e", "l", "l", "o">>, <<"0", "x", "1", "0">>, <<"1", "0", "0", "0", "0">> }

AttrStrings == SeqsUpTo(Chars, MaxStrLen) \cup Literals

InitCoerce ==
    /\ pc = "idle"
    /\ input \in AttrStrings
    /\ output = PyNone
    /\ BuilderIdle

Coerce ==
    /\ pc = "idle"
    /\ output' = XmlCoerce(input)
    /\ pc' = "done"
    /\ UNCHANGED <<input, builderVars>>

NextCoerce == Coerce

SpecCoerce == InitCoerce /\ [][NextCoerce]_vars

\* C10: the coerced value of a raw attribute string s is int(s) when that parses;
\* otherwise float(s) when that parses; otherwise the boolean lower(s) = "true" when
\* lower(s) is "true" or "false"; otherwise s itself.  The first stage that succeeds
\* decides.
C10_CoercionOrder ==
    pc = "done" =>
        /\ IntParses(input) => output = PyInt(IntValue(input))
        /\ ~IntParses(input) /\ FloatParses(input) => output = PyFloat(FloatValue(input))
        /\ ~IntParses(input) /\ ~FloatParses(input) /\ Lower(input) \in {StrTrue, StrFalse}
              => output = PyBool(Lower(input) = StrTrue)
        /\ ~IntParses(input) /\ ~FloatParses(input) /\ Lower(input) \notin {StrTrue, StrFalse}
              => output = PyStr(input)

\* "1e3": the int stage fails and the float stage decides
C10_Witness ==
    /\ pc = "done"
    /\ input = <<"1", "e", "3">>
    /\ output = PyFloat([k |-> "finite", sign |-> 1, mant |-> 1, exp |-> 3])

-----------------------------------------------------------------------------
(* Specification SpecXml: one XML document through ET.parse and _xml_to_dict *)

KeyText == <<"t", "e", "x", "t">>
KeyWidth == <<"w", "i", "d", "t", "h">>

RawAttribs ==
    { <<>>,
      << <<X_NAMESPACE, <<"l", "b">> >> >>,
      << <<KeyText, <<"1", "e", "3">> >> >>,
      << <<KeyWidth, <<"4", "2">> >>, <<X_NAMESPACE, <<"4", "2">> >> >> }

XmlLeaves == {Element("Label", a, <<>>) : a \in RawAttribs} \cup {CommentNode, PINode}
XmlKidLists == SeqsUpTo(XmlLeaves, MaxXmlKids)
XmlMids == {Element("VStack", a, ks) : a \in RawAttribs, ks \in XmlKidLists}
XmlDocs ==
    {d \in XmlLeaves : IsElement(d)} \cup XmlMids
      \cup {Element("Window", <<>>, <<CommentNode, m>>) : m \in XmlMids}

InitXml ==
    /\ pc = "idle"
    /\ input \in XmlDocs
    /\ output = PyNone
    /\ BuilderIdle

Normalize_Xml ==
    /\ pc = "idle"
    /\ output' = XmlToDict(ETParse(input))
    /\ pc' = "done"
    /\ UNCHANGED <<input, builderVars>>

NextXml == Normalize_Xml

SpecXml == InitXml /\ [][NextXml]_vars

ElementChildren(e) == SelectSeq(e.children, IsElement)
RemainingAttribs(e) == SelectSeq(e.attrib, LAMBDA p : IsNotKey(p, X_NAMESPACE))

RECURSIVE CanonicalShape(_, _)
CanonicalShape(e, n) ==
    /\ IsNode(n)
    /\ "attributes" \in DOMAIN n => RemainingAttribs(e) # <<>> /\ n.attributes.v # <<>>
    /\ "children" \in DOMAIN n => ElementChildren(e) # <<>> /\ n.children # <<>>
    /\ LET kids == IF "children" \in DOMAIN n THEN n.children ELSE <<>>
       IN \A i \in 1..Len(kids) :
              /\ i <= Len(ElementChildren(e))
              /\ CanonicalShape(ElementChildren(e)[i], kids[i])

\* C9: for every element of an XML document, the canonical node has an `attributes`
\* field only when an attribute remains after the name attribute is hoisted, and a
\* `children` field only when the element has a child element (comments and
\* processing instructions do not count); no node carries an empty `attributes` map
\* or an empty `children` sequence.
C9_NoEmptyFields ==
    pc = "done" => CanonicalShape(input, output)

\* a VStack whose only attribute is its name and whose only children are comments
C9_Witness ==
    /\ pc = "done"
    /\ input = Element("VStack", << <<X_NAMESPACE, <<"l", "b">> >> >>, <<CommentNode, PINode>>)
    /\ DOMAIN output = {"type", "name"}

-----------------------------------------------------------------------------
(* The toolkit and the controller, as the builder sees them *)

CONTAINER_WIDGETS == {"VStack", "HStack", "ZStack", "ScrollingFrame", "CollapsableFrame"}
TEXT_WIDGETS == {"Label", "Button", "ComboItem"}

\* the names getattr(ui, ui_type) resolves
UiNamespace ==
    CONTAINER_WIDGETS \cup TEXT_WIDGETS
      \cup {"Window", "ComboBox", "RadioCollection", "RadioButton", "StringField"}

\* hasattr(widget, 'model')
HasModel(ui_type) == ui_type \in {"ComboBox", "RadioCollection", "StringField"}

KeyTitle == <<"t", "i", "t", "l", "e">>
KeyStyle == <<"s", "t", "y", "l", "e">>
KeyModelValue == <<"m", "o", "d", "e", "l", ".", "v", "a", "l", "u", "e">>
KeyRadioCollection == <<"radio_collection">>
KeyClickedFn == <<"clicked", "_", "f", "n">>
KeyChangedFn == <<"add_value_changed", "_", "f", "n">>
KeyEndEditFn == <<"add_end_edit", "_", "f", "n">>
\* a keyword no widget constructor accepts
KeyBogus == <<"b", "o", "g", "u", "s">>
SuffixFn == <<"_", "f", "n">>

\* hasattr(widget.model, callback_name)
ModelHas(ui_type, key) == HasModel(ui_type) /\ key \in {KeyChangedFn, KeyEndEditFn}

\* the methods the controller class defines (src/extension.py)
ControllerMethods == { <<"on_click">>, <<"on_reset">>, <<"on_name_changed">> }

\* ui_class(*args, **kwargs): the constructor rejects a keyword it does not know
ConstructorRaises(ui_type, args, kwargs) == Has(kwargs, KeyBogus)

\* ast.literal_eval on the style strings of the documents drawn
StyleDict == <<"{'color': 1}">>
StyleSyntaxError == <<"{oops">>
StyleValueError == <<"blue">>
StyleTypeError == <<"{[1]: 2}">>

RaiseOf(e) == [k |-> "raise", e |-> e, v |-> PyNone]
ReturnOf(v) == [k |-> "return", e |-> "", v |-> v]

LiteralEval(style_str) ==
    CASE style_str = StyleDict -> ReturnOf(PyDict(<< <<(<<"color">>), PyInt(1)>> >>))
      [] style_str = StyleSyntaxError -> RaiseOf("SyntaxError")
      [] style_str = StyleTypeError -> RaiseOf("TypeError")
      [] OTHER -> RaiseOf("ValueError")

ParseStyleString(style_str) ==
    LET r == LiteralEval(style_str)
    IN IF r.k = "raise" /\ r.e \in {"ValueError", "SyntaxError"}
       THEN ReturnOf(PyDict(<<>>))
       ELSE r

\* getattr(self, callback_value): instance attributes first, then the methods
ResolveOnController(attrs, callback_value) ==
    IF callback_value \in DOMAIN attrs THEN ReturnOf(attrs[callback_value])
    ELSE IF callback_value \in ControllerMethods THEN ReturnOf(PyCallable(callback_value))
    ELSE RaiseOf("AttributeError")

\* _extract_callbacks: [k, e, callbacks, kwargs]; kwargs is mutated in place, so what
\* was popped before the raise stays popped
RECURSIVE ExtractFrom(_, _, _, _)
ExtractFrom(keys, kwargs, callbacks, attrs) ==
    IF keys = <<>> THEN [k |-> "return", e |-> "", callbacks |-> callbacks, kwargs |-> kwargs]
    ELSE LET key == Head(keys) IN
         IF ~EndsWith(key, SuffixFn) THEN ExtractFrom(Tail(keys), kwargs, callbacks, attrs)
         ELSE LET callback_value == Get(kwargs, key)
                  popped == Pop(kwargs, key)
              IN IF IsStr(callback_value)
                 THEN LET r == ResolveOnController(attrs, callback_value.v)
                      IN IF r.k = "raise"
                         THEN [k |-> "raise", e |-> r.e, callbacks |-> callbacks,
                               kwargs |-> popped]
                         ELSE ExtractFrom(Tail(keys), popped, Put(callbacks, key, r.v), attrs)
                 ELSE ExtractFrom(Tail(keys), popped, Put(callbacks, key, callback_value),
                                  attrs)

ExtractCallbacks(kwargs, attrs) ==
    ExtractFrom([i \in 1..Len(kwargs) |-> kwargs[i][1]], kwargs, <<>>, attrs)

\* a plausible slip: the first registration that raises ends the loop
RegisterCallbacksStopAtRaise(path, ui_type, callbacks) ==
    IF callbacks = <<>> \/ ~HasModel(ui_type) THEN <<>>
    ELSE LET all == [i \in 1..Len(callbacks) |->
                        IF ~ModelHas(ui_type, callbacks[i][1])
                        THEN [e |-> "no_method", path |-> path, key |-> callbacks[i][1]]
                        ELSE [e |-> "register", path |-> path, key |-> callbacks[i][1],
                              handler |-> callbacks[i][2],
                              raised |-> callbacks[i][2].t # "callable"]]
             bad == {i \in 1..Len(all) : all[i].e = "register" /\ all[i].raised}
         IN IF bad = {} THEN all
            ELSE SubSeq(all, 1, CHOOSE i \in bad : \A j \in bad : i <= j)

\* _register_callbacks: the calls it makes on the widget's model, in order.  The
\* registration method raises when handed something that is not callable; the
\* exception is caught and the loop goes on.
RegisterCallbacks(path, ui_type, callbacks) ==
    IF callbacks = <<>> \/ ~HasModel(ui_type) THEN <<>>
    ELSE [i \in 1..Len(callbacks) |->
            IF ~ModelHas(ui_type, callbacks[i][1])
            THEN [e |-> "no_method", path |-> path, key |-> callbacks[i][1]]
            ELSE [e |-> "register", path |-> path, key |-> callbacks[i][1],
                  handler |-> callbacks[i][2],
                  raised |-> callbacks[i][2].t # "callable"]]

-----------------------------------------------------------------------------
(* Canonical nodes *)

HasType(node) == "type" \in DOMAIN node
Children(node) == IF "children" \in DOMAIN node THEN node.children ELSE <<>>
NameOf(node) == IF "name" \in DOMAIN node THEN node.name ELSE <<>>

RECURSIVE NodeAt(_, _)
NodeAt(root, path) ==
    IF path = <<>> THEN root ELSE NodeAt(root.children[Head(path)], Tail(path))

\* child['attributes'] = value, on the node at path
RECURSIVE SetAttributes(_, _, _)
SetAttributes(root, path, value) ==
    IF path = <<>> THEN ("attributes" :> value) @@ root
    ELSE [root EXCEPT !["children"][Head(path)] = SetAttributes(@, Tail(path), value)]

\* lines 170-209 of _build_ui_from_dict: everything before the try block
Prepare(node) ==
    LET blank == [k |-> "none", e |-> "", ui_type |-> "", args |-> <<>>, kwargs |-> <<>>]
    IN
    IF ~HasType(node) THEN blank
    ELSE IF node.type \notin UiNamespace THEN [blank EXCEPT !.k = "unknown", !.ui_type = node.type]
    ELSE
    LET ui_type == node.type
        attrs == IF "attributes" \in DOMAIN node THEN node.attributes ELSE PyDict(<<>>)
        kwargs0 == IF IsDict(attrs) THEN attrs.v ELSE <<>>
        styled == Has(kwargs0, KeyStyle) /\ IsStr(Get(kwargs0, KeyStyle))
        parsed == IF styled THEN ParseStyleString(Get(kwargs0, KeyStyle).v) ELSE ReturnOf(PyNone)
        kwargs1 == IF styled /\ parsed.k = "return" THEN Put(kwargs0, KeyStyle, parsed.v)
                   ELSE kwargs0
        positional == IF ui_type \in TEXT_WIDGETS THEN KeyText
                      ELSE IF ui_type = "Window" THEN KeyTitle
                      ELSE <<>>
        promoted == positional # <<>> /\ Has(kwargs1, positional)
    IN IF parsed.k = "raise"
       THEN [blank EXCEPT !.k = "raise", !.e = parsed.e, !.ui_type = ui_type]
       ELSE [k |-> "ready", e |-> "", ui_type |-> ui_type,
             args |-> IF promoted THEN <<Get(kwargs1, positional)>> ELSE <<>>,
             kwargs |-> IF promoted THEN Pop(kwargs1, positional) ELSE kwargs1]

-----------------------------------------------------------------------------
(* ElementAccessor *)

\* a plausible slip: a repeated name keeps its first widget
ElementSetAttrKeepFirst(elements, name, value) ==
    IF name \in DOMAIN elements THEN elements ELSE (name :> value) @@ elements

\* __setattr__: object.__setattr__(self, name, value)
ElementSetAttr(elements, name, value) == (name :> value) @@ elements

\* attribute read: the stored value, or __getattr__ raising AttributeError with the name
ElementGetAttr(elements, name) ==
    IF name \in DOMAIN elements THEN ReturnOf(elements[name])
    ELSE [k |-> "raise", e |-> "AttributeError", v |-> PyStr(name)]

-----------------------------------------------------------------------------
(* _build_ui_from_dict as a machine: one frame per active call *)

SelfPrefix == <<"s", "e", "l", "f", ".">>

Frame(path) ==
    [path |-> path, phase |-> "enter", ui_type |-> "", widget |-> PyNone, region |-> FALSE,
     callbacks |-> <<>>, model_value |-> PyNone, i |-> 0]

Top == stack[Len(stack)]
Callers == SubSeq(stack, 1, Len(stack) - 1)
TopNode == NodeAt(definition, Top.path)
Entering == pc = "building" /\ pending = NoPending /\ stack # <<>> /\ Top.phase = "enter"
InChildren == pc = "building" /\ pending = NoPending /\ stack # <<>> /\ Top.phase = "children"

EvBuild(path) == [e |-> "build", path |-> path]
EvConstruct(path, ui_type, args, kwargs, raised) ==
    [e |-> "construct", path |-> path, ui_type |-> ui_type, args |-> args, kwargs |-> kwargs,
     raised |-> raised]
EvError(path, exc) == [e |-> "error", path |-> path, exc |-> exc]
EvStore(name, widget) == [e |-> "store", name |-> name, widget |-> widget]
EvSetSelf(name, widget) == [e |-> "setattr_self", name |-> name, widget |-> widget]

\* the call on top of the stack ends by returning value
Returns(value, events) ==
    /\ stack' = Callers
    /\ pending' = ReturnOf(value)
    /\ log' = log \o events \o <<[e |-> "return", path |-> Top.path, value |-> value]>>

\* the except clause of line 290: report, return None
Caught(exc, events) == Returns(PyNone, events \o <<EvError(Top.path, exc)>>)

\* the call on top of the stack goes on to its child loop
Continues(frame, events) ==
    /\ stack' = Append(Callers, frame)
    /\ pending' = NoPending
    /\ log' = log \o events

\* no type, or a type omni.ui does not have: None, before anything is constructed
BuildSkip ==
    /\ Entering
    /\ Prepare(TopNode).k \in {"none", "unknown"}
    /\ Returns(PyNone, <<EvBuild(Top.path)>>)
    /\ UNCHANGED <<pc, input, output, ui_file_path, definition, regions, named_elements,
                   controller_attrs, result, last_read>>

\* _parse_style_string lets an exception through: line 193 is outside the try block
BuildRaise ==
    /\ Entering
    /\ Prepare(TopNode).k = "raise"
    /\ stack' = Callers
    /\ pending' = RaiseOf(Prepare(TopNode).e)
    /\ log' = log \o <<EvBuild(Top.path),
                        [e |-> "raise", path |-> Top.path, exc |-> Prepare(TopNode).e]>>
    /\ UNCHANGED <<pc, input, output, ui_file_path, definition, regions, named_elements,
                   controller_attrs, result, last_read>>

\* a plausible slip: every named window goes to the registry
RegisterWindowAlwaysRegistry(elements, attrs, name, widget) ==
    IF name = <<>> THEN [elements |-> elements, attrs |-> attrs, events |-> <<>>]
    ELSE [elements |-> ElementSetAttr(elements, name, widget), attrs |-> attrs,
          events |-> <<EvStore(name, widget)>>]

\* lines 216-220: where a named window is kept
RegisterWindow(elements, attrs, name, widget) ==
    IF name = <<>> THEN [elements |-> elements, attrs |-> attrs, events |-> <<>>]
    ELSE IF StartsWith(name, SelfPrefix)
    THEN [elements |-> elements, attrs |-> (SliceFrom(name, 5) :> widget) @@ attrs,
          events |-> <<EvSetSelf(SliceFrom(name, 5), widget)>>]
    ELSE [elements |-> ElementSetAttr(elements, name, widget), attrs |-> attrs,
          events |-> <<EvStore(name, widget)>>]

\* the Window branch up to its child loop
BuildWindow ==
    /\ Entering
    /\ Prepare(TopNode).k = "ready"
    /\ Prepare(TopNode).ui_type = "Window"
    /\ LET prep == Prepare(TopNode)
           path == Top.path
           widget == Widget(path)
           kept == RegisterWindow(named_elements, controller_attrs, NameOf(TopNode), widget)
           entered == Children(TopNode) # <<>>
       IN IF ConstructorRaises(prep.ui_type, prep.args, prep.kwargs)
          THEN /\ Caught("TypeError", <<EvBuild(path),
                        EvConstruct(path, prep.ui_type, prep.args, prep.kwargs, TRUE)>>)
               /\ UNCHANGED <<regions, named_elements, controller_attrs>>
          ELSE /\ named_elements' = kept.elements
               /\ controller_attrs' = kept.attrs
               /\ regions' = IF entered THEN Append(regions, path) ELSE regions
               /\ Continues([Top EXCEPT !.phase = "children", !.ui_type = prep.ui_type,
                                        !.widget = widget, !.region = entered, !.i = 1],
                            <<EvBuild(path),
                              EvConstruct(path, prep.ui_type, prep.args, prep.kwargs, FALSE)>>
                              \o kept.events
                              \o (IF entered THEN <<[e |-> "enter", path |-> path]>> ELSE <<>>))
    /\ UNCHANGED <<pc, input, output, ui_file_path, definition, result, last_read>>

\* the item loop of the ComboBox branch: the texts appended, and whether a child's
\* `attributes` had no .get
RECURSIVE ComboItems(_)
ComboItems(children) ==
    IF children = <<>> THEN [raised |-> FALSE, items |-> <<>>]
    ELSE LET child == Head(children)
             attrs == IF "attributes" \in DOMAIN child THEN child.attributes ELSE PyDict(<<>>)
             rest == ComboItems(Tail(children))
         IN IF ~(HasType(child) /\ child.type = "ComboItem") THEN rest
            ELSE IF ~IsDict(attrs) THEN [raised |-> TRUE, items |-> <<>>]
            ELSE [raised |-> rest.raised,
                  items |-> <<GetOr(attrs.v, KeyText, PyStr(<<>>))>> \o rest.items]

\* the whole ComboBox branch: it never recurses
BuildComboBox ==
    /\ Entering
    /\ Prepare(TopNode).k = "ready"
    /\ Prepare(TopNode).ui_type = "ComboBox"
    /\ LET prep == Prepare(TopNode)
           path == Top.path
           widget == Widget(path)
           name == NameOf(TopNode)
           ex == ExtractCallbacks(prep.kwargs, controller_attrs)
           built == EvConstruct(path, prep.ui_type, <<>>, ex.kwargs, FALSE)
           loop == ComboItems(Children(TopNode))
           appends == [j \in 1..Len(loop.items) |->
                          [e |-> "append", path |-> path, text |-> loop.items[j]]]
       IN IF ex.k = "raise"
          THEN /\ Caught(ex.e, <<EvBuild(path)>>)
               /\ UNCHANGED named_elements
          ELSE IF ConstructorRaises(prep.ui_type, <<>>, ex.kwargs)
          THEN /\ Caught("TypeError", <<EvBuild(path),
                        EvConstruct(path, prep.ui_type, <<>>, ex.kwargs, TRUE)>>)
               /\ UNCHANGED named_elements
          ELSE IF loop.raised
          THEN /\ Caught("AttributeError", <<EvBuild(path), built>> \o appends)
               /\ UNCHANGED named_elements
          ELSE /\ named_elements' = IF name # <<>> THEN ElementSetAttr(named_elements, name, widget)
                                    ELSE named_elements
               /\ Returns(widget, <<EvBuild(path), built>> \o appends
                                    \o RegisterCallbacks(path, prep.ui_type, ex.callbacks)
                                    \o (IF name # <<>> THEN <<EvStore(name, widget)>> ELSE <<>>))
    /\ UNCHANGED <<pc, input, output, ui_file_path, definition, regions, controller_attrs,
                   result, last_read>>

\* the RadioCollection branch up to its child loop
BuildRadioCollection ==
    /\ Entering
    /\ Prepare(TopNode).k = "ready"
    /\ Prepare(TopNode).ui_type = "RadioCollection"
    /\ LET prep == Prepare(TopNode)
           path == Top.path
           ex == ExtractCallbacks(prep.kwargs, controller_attrs)
       IN IF ex.k = "raise"
          THEN Caught(ex.e, <<EvBuild(path)>>)
          ELSE IF ConstructorRaises(prep.ui_type, <<>>, ex.kwargs)
          THEN Caught("TypeError", <<EvBuild(path),
                     EvConstruct(path, prep.ui_type, <<>>, ex.kwargs, TRUE)>>)
          ELSE Continues([Top EXCEPT !.phase = "children", !.ui_type = prep.ui_type,
                                    !.widget = Widget(path), !.callbacks = ex.callbacks,
                                    !.i = 1],
                         <<EvBuild(path),
                           EvConstruct(path, prep.ui_type, <<>>, ex.kwargs, FALSE)>>)
    /\ UNCHANGED <<pc, input, output, ui_file_path, definition, regions, named_elements,
                   controller_attrs, result, last_read>>

\* the default branch up to its child loop: containers open their region, the other
\* kinds take their callbacks back as constructor keywords
BuildDefault ==
    /\ Entering
    /\ Prepare(TopNode).k = "ready"
    /\ Prepare(TopNode).ui_type \notin {"Window", "ComboBox", "RadioCollection"}
    /\ LET prep == Prepare(TopNode)
           path == Top.path
           ex == ExtractCallbacks(prep.kwargs, controller_attrs)
           model_value == GetOr(ex.kwargs, KeyModelValue, PyNone)
           kwargs == Pop(ex.kwargs, KeyModelValue)
           container == prep.ui_type \in CONTAINER_WIDGETS
           args == IF container THEN <<>> ELSE prep.args
           merged == IF container THEN kwargs ELSE Update(kwargs, ex.callbacks)
       IN IF ex.k = "raise"
          THEN /\ Caught(ex.e, <<EvBuild(path)>>)
               /\ UNCHANGED regions
          ELSE IF ConstructorRaises(prep.ui_type, args, merged)
          THEN /\ Caught("TypeError", <<EvBuild(path),
                        EvConstruct(path, prep.ui_type, args, merged, TRUE)>>)
               /\ UNCHANGED regions
          ELSE /\ regions' = IF container THEN Append(regions, path) ELSE regions
               /\ Continues([Top EXCEPT !.phase = "children", !.ui_type = prep.ui_type,
                                        !.widget = Widget(path), !.region = container,
                                        !.callbacks = ex.callbacks,
                                        !.model_value = model_value, !.i = 1],
                            <<EvBuild(path),
                              EvConstruct(path, prep.ui_type, args, merged, FALSE)>>
                              \o (IF container THEN <<[e |-> "enter", path |-> path]>>
                                  ELSE <<>>))
    /\ UNCHANGED <<pc, input, output, ui_file_path, definition, named_elements,
                   controller_attrs, result, last_read>>

\* one turn of a child loop: the recursive call, after the RadioCollection's injection
BuildChild ==
    /\ InChildren
    /\ Top.i <= Len(Children(TopNode))
    /\ LET child_path == Append(Top.path, Top.i)
           child == NodeAt(definition, child_path)
           inject == /\ Top.ui_type = "RadioCollection"
                     /\ HasType(child)
                     /\ child.type = "RadioButton"
           attrs == IF "attributes" \in DOMAIN child THEN child.attributes ELSE PyDict(<<>>)
       IN IF inject /\ ~IsDict(attrs)
          THEN \* item assignment on something that is no dict: TypeError, caught by
               \* the RadioCollection's own except clause
               /\ Caught("TypeError", <<>>)
               /\ UNCHANGED definition
          ELSE /\ definition' =
                     IF inject
                     THEN SetAttributes(definition, child_path,
                                        PyDict(Put(attrs.v, KeyRadioCollection, Top.widget)))
                     ELSE definition
               /\ stack' = Append(stack, Frame(child_path))
               /\ pending' = NoPending
               /\ log' = log
    /\ UNCHANGED <<pc, input, output, ui_file_path, regions, named_elements,
                   controller_attrs, result, last_read>>

\* a plausible slip: the name is registered before the value is set and the callbacks bound
AfterChildrenStoreFirst(exit, set_value, registered, stored) ==
    exit \o stored \o set_value \o registered

\* lines 277-287 (249-252 for a RadioCollection): the order of what follows the child loop
AfterChildren(exit, set_value, registered, stored) ==
    exit \o set_value \o registered \o stored

\* after the child loop: leave the region, then what the branch does before `return widget`
FinishChildren ==
    /\ InChildren
    /\ Top.i > Len(Children(TopNode))
    /\ LET path == Top.path
           name == NameOf(TopNode)
           widget == Top.widget
           exit == IF Top.region THEN <<[e |-> "exit", path |-> path]>> ELSE <<>>
           set_value == IF Top.ui_type \notin {"Window", "RadioCollection"}
                           /\ Top.model_value # PyNone /\ HasModel(Top.ui_type)
                        THEN <<[e |-> "set_value", path |-> path, value |-> Top.model_value]>>
                        ELSE <<>>
           registered == IF Top.ui_type = "Window" THEN <<>>
                         ELSE RegisterCallbacks(path, Top.ui_type, Top.callbacks)
           stored == Top.ui_type # "Window" /\ name # <<>>
       IN /\ regions' = IF Top.region THEN SubSeq(regions, 1, Len(regions) - 1) ELSE regions
          /\ named_elements' = IF stored THEN ElementSetAttr(named_elements, name, widget)
                               ELSE named_elements
          /\ Returns(widget, AfterChildren(exit, set_value, registered,
                                           IF stored THEN <<EvStore(name, widget)>> ELSE <<>>))
    /\ UNCHANGED <<pc, input, output, ui_file_path, definition, controller_attrs, result,
                   last_read>>

\* the recursive call returned: its value is dropped, the loop goes on
ChildReturned ==
    /\ pc = "building"
    /\ pending.k = "return"
    /\ stack # <<>>
    /\ stack' = Append(Callers, [Top EXCEPT !.i = @ + 1])
    /\ pending' = NoPending
    /\ UNCHANGED <<pc, input, output, ui_file_path, definition, regions, named_elements,
                   controller_attrs, log, result, last_read>>

\* a plausible slip: the region stays open when the child loop is left by an exception
ExitOnExceptionLeaks(open, frame) == open

\* the with statement of the caller closes its region when an exception passes
ExitOnException(open, frame) ==
    IF frame.region THEN SubSeq(open, 1, Len(open) - 1) ELSE open

\* the recursive call raised: the caller's with block is left, its except clause
\* catches, and the caller returns None
ChildRaised ==
    /\ pc = "building"
    /\ pending.k = "raise"
    /\ stack # <<>>
    /\ regions' = ExitOnException(regions, Top)
    /\ Caught(pending.e, IF Top.region THEN <<[e |-> "exit", path |-> Top.path]>> ELSE <<>>)
    /\ UNCHANGED <<pc, input, output, ui_file_path, definition, named_elements,
                   controller_attrs, result, last_read>>

-----------------------------------------------------------------------------
(* load_ui *)

ExtJson == <<".", "j", "s", "o", "n">>
ExtXml == <<".", "x", "m", "l">>

\* a plausible slip: whatever is not .xml is read as JSON
LoadDefinitionJsonByDefault(path, content) ==
    IF EndsWith(path, ExtXml)
    THEN IF content.k = "xml" THEN ReturnOf(XmlToDict(ETParse(content.v)))
         ELSE RaiseOf("ParseError")
    ELSE IF content.k = "json" THEN ReturnOf(content.v) ELSE RaiseOf("JSONDecodeError")

\* lines 43-51: the definition a file gives, or the exception raised instead
LoadDefinition(path, content) ==
    IF EndsWith(path, ExtJson)
    THEN IF content.k = "json" THEN ReturnOf(content.v) ELSE RaiseOf("JSONDecodeError")
    ELSE IF EndsWith(path, ExtXml)
    THEN IF content.k = "xml" THEN ReturnOf(XmlToDict(ETParse(content.v)))
         ELSE RaiseOf("ParseError")
    ELSE RaiseOf("ValueError")

LoadUi ==
    /\ pc = "idle"
    /\ LET loaded == LoadDefinition(ui_file_path, input)
       IN IF loaded.k = "raise"
          THEN /\ pc' = "done"
               /\ result' = loaded
               /\ UNCHANGED <<definition, stack>>
          ELSE /\ pc' = "building"
               /\ definition' = loaded.v
               /\ stack' = <<Frame(<<>>)>>
               /\ UNCHANGED result
    /\ UNCHANGED <<input, output, ui_file_path, pending, regions, named_elements,
                   controller_attrs, log, last_read>>

\* the outermost _build_ui_from_dict returned: load_ui returns
LoadReturned ==
    /\ pc = "building"
    /\ stack = <<>>
    /\ pending.k = "return"
    /\ pc' = "done"
    /\ result' = ReturnOf(PyNone)
    /\ pending' = NoPending
    /\ UNCHANGED <<input, output, ui_file_path, definition, stack, regions, named_elements,
                   controller_attrs, log, last_read>>

\* the outermost _build_ui_from_dict raised: so does load_ui
LoadRaised ==
    /\ pc = "building"
    /\ stack = <<>>
    /\ pending.k = "raise"
    /\ pc' = "done"
    /\ result' = pending
    /\ pending' = NoPending
    /\ UNCHANGED <<input, output, ui_file_path, definition, stack, regions, named_elements,
                   controller_attrs, log, last_read>>

NameLb == <<"l", "b">>
NameSelfW == <<"s", "e", "l", "f", ".", "w">>
NameSelfOnly == <<"s", "e", "l", "f", ".">>
NameSelfless == <<"s", "e", "l", "f", "w">>
NameW == <<"w">>

ReadNames == {NameLb, NameW, NameSelfW}

\* a handler of the controller reads self._named_elements.<name> (src/extension.py:323)
ReadElement(name) ==
    /\ pc = "done"
    /\ last_read' = [k |-> "read", name |-> name, got |-> ElementGetAttr(named_elements, name)]
    /\ UNCHANGED <<pc, input, output, ui_file_path, definition, stack, pending, regions,
                   named_elements, controller_attrs, log, result>>

-----------------------------------------------------------------------------
(* The documents drawn *)

Absent == [t |-> "absent"]

JNode(type, name, attributes, children) ==
    (IF type # "" THEN ("type" :> type) ELSE <<>>)
      @@ (IF name # <<>> THEN ("name" :> name) ELSE <<>>)
      @@ (IF attributes.t # "absent" THEN ("attributes" :> attributes) ELSE <<>>)
      @@ (IF children # <<>> THEN ("children" :> children) ELSE <<>>)

Text(s) == PyStr(<<s>>)
Junk == PyStr(<<"j", "u", "n", "k">>)

Leaves ==
    { JNode("Label", NameLb, PyDict(<< <<KeyText, Text("A")>> >>), <<>>),
      JNode("Bogus", NameLb, Absent, <<>>),
      JNode("", <<>>, PyDict(<< <<KeyText, Text("A")>> >>), <<>>),
      JNode("Label", NameLb, PyDict(<< <<KeyBogus, PyInt(1)>> >>), <<>>),
      JNode("Button", <<>>, PyDict(<< <<KeyText, Text("B")>>,
                                     <<KeyClickedFn, PyStr(<<"on_click">>)>> >>), <<>>),
      JNode("Button", NameLb, PyDict(<< <<KeyClickedFn, PyStr(<<"missing">>)>> >>), <<>>),
      JNode("Label", <<>>, PyDict(<< <<KeyStyle, PyStr(StyleTypeError)>> >>), <<>>),
      JNode("Label", <<>>, PyDict(<< <<KeyStyle, PyStr(StyleSyntaxError)>> >>), <<>>),
      JNode("RadioButton", <<>>, Absent, <<>>),
      JNode("RadioButton", <<>>, Junk, <<>>),
      JNode("RadioButton", <<>>, PyDict(<< <<KeyText, Text("R")>> >>), <<>>),
      JNode("ComboItem", <<>>, PyDict(<< <<KeyText, Text("A")>> >>), <<>>),
      JNode("ComboItem", <<>>, PyDict(<< <<KeyText, Text("B")>> >>), <<>>),
      JNode("ComboItem", <<>>, Absent, <<>>),
      JNode("ComboItem", <<>>, PyList(<<>>), <<>>),
      JNode("StringField", NameLb,
            PyDict(<< <<KeyModelValue, Text("x")>>,
                      <<KeyEndEditFn, PyStr(<<"w">>)>>,
                      <<KeyChangedFn, PyStr(<<"on_name_changed">>)>>,
                      <<KeyClickedFn, PyStr(<<"on_click">>)>> >>), <<>>),
      JNode("Label", NameW, Junk, <<>>) }

KidLists == SeqsUpTo(Leaves, MaxKids)

ParentHeads ==
    { [type |-> "Window", name |-> NameSelfW,
       attributes |-> PyDict(<< <<KeyTitle, Text("T")>> >>)],
      [type |-> "Window", name |-> NameLb, attributes |-> Absent],
      [type |-> "Window", name |-> NameSelfless, attributes |-> Absent],
      [type |-> "Window", name |-> NameSelfOnly, attributes |-> Absent],
      [type |-> "Window", name |-> NameLb,
       attributes |-> PyDict(<< <<KeyBogus, PyInt(1)>> >>)],
      [type |-> "VStack", name |-> NameW, attributes |-> Absent],
      [type |-> "ComboBox", name |-> NameLb,
       attributes |-> PyDict(<< <<KeyChangedFn, PyStr(<<"on_reset">>)>> >>)],
      [type |-> "ComboBox", name |-> NameLb,
       attributes |-> PyDict(<< <<KeyChangedFn, PyStr(<<"missing">>)>> >>)],
      [type |-> "RadioCollection", name |-> NameLb,
       attributes |-> PyDict(<< <<KeyChangedFn, PyStr(<<"on_reset">>)>> >>)],
      [type |-> "Button", name |-> <<>>, attributes |-> Absent] }

Parents == {JNode(h.type, h.name, h.attributes, ks) : h \in ParentHeads, ks \in KidLists}

\* a second level under three kinds of root, over the leaves that fail in each way
DeepLeaves ==
    { JNode("Label", NameLb, PyDict(<< <<KeyText, Text("A")>> >>), <<>>),
      JNode("Bogus", NameLb, Absent, <<>>),
      JNode("Label", <<>>, PyDict(<< <<KeyStyle, PyStr(StyleTypeError)>> >>), <<>>),
      JNode("RadioButton", <<>>, Absent, <<>>) }
DeepHeads ==
    { h \in ParentHeads : h.type \in {"VStack", "RadioCollection"}
                            \/ (h.type = "Window" /\ h.name = NameSelfW) }
Mids == {JNode(h.type, h.name, h.attributes, ks) :
            h \in DeepHeads, ks \in SeqsUpTo(DeepLeaves, MaxKids)}
Deep == {JNode(h.type, h.name, h.attributes, <<m>> \o tail) :
            h \in DeepHeads, m \in Mids, tail \in SeqsUpTo(DeepLeaves, 1)}

JsonDocs == Leaves \cup Parents \cup Deep

\* <Window x:Name="self.w" title="T"><VStack><Label text="1e3"/><!-- c --></VStack></Window>
XmlWindow ==
    Element("Window", << <<X_NAMESPACE, NameSelfW>>, <<KeyTitle, <<"T">> >> >>,
            << Element("VStack", <<>>,
                       << Element("Label", << <<KeyText, <<"1", "e", "3">> >>,
                                              <<X_NAMESPACE, NameLb>> >>, <<>>),
                          CommentNode >>) >>)
\* <ComboBox add_value_changed_fn="on_reset"><ComboItem text="42"/><ComboItem/></ComboBox>
XmlCombo ==
    Element("ComboBox", << <<KeyChangedFn, <<"on_reset">> >> >>,
            << Element("ComboItem", << <<KeyText, <<"4", "2">> >> >>, <<>>),
               Element("ComboItem", <<>>, <<>>) >>)

OtherPaths ==
    { <<"u", "i", ".", "t", "x", "t">>, <<"u", "i", ".", "J", "S", "O", "N">>,
      <<"u", "i", ".", "x", "m", "l", ".", "b", "a", "k">>, <<"j", "s", "o", "n">>,
      <<"x", "m", "l">>, <<>> }
PathJson == <<"u", "i", ".", "j", "s", "o", "n">>
PathXml == <<"u", "i", ".", "x", "m", "l">>

JsonContent(d) == [k |-> "json", v |-> d]
XmlContent(x) == [k |-> "xml", v |-> x]
SampleContents ==
    { XmlContent(XmlWindow),
      JsonContent(JNode("Window", NameLb, Absent,
                        << JNode("Label", NameW, PyDict(<< <<KeyText, Text("A")>> >>), <<>>) >>)) }

Files ==
    {[path |-> PathJson, content |-> JsonContent(d)] : d \in JsonDocs}
      \cup {[path |-> PathXml, content |-> XmlContent(x)] : x \in {XmlWindow, XmlCombo}}
      \cup {[path |-> p, content |-> c] : p \in OtherPaths \cup {PathJson, PathXml},
                                           c \in SampleContents}

\* what an earlier load_ui may have left in the registry
PriorWidget == Widget(<<0>>)
PriorElements == {<<>>, NameLb :> PriorWidget}

Init ==
    /\ pc = "idle"
    /\ \E f \in Files : ui_file_path = f.path /\ input = f.content
    /\ output = PyNone
    /\ definition = PyNone
    /\ stack = <<>>
    /\ pending = NoPending
    /\ regions = <<>>
    /\ named_elements \in PriorElements
    /\ controller_attrs = <<>>
    /\ log = [i \in 1..Cardinality(DOMAIN named_elements) |-> EvStore(NameLb, PriorWidget)]
    /\ result = NoResult
    /\ last_read = NoRead

Next ==
    \/ LoadUi
    \/ BuildSkip
    \/ BuildRaise
    \/ BuildWindow
    \/ BuildComboBox
    \/ BuildRadioCollection
    \/ BuildDefault
    \/ BuildChild
    \/ FinishChildren
    \/ ChildReturned
    \/ ChildRaised
    \/ LoadReturned
    \/ LoadRaised
    \/ \E name \in ReadNames : ReadElement(name)

Spec == Init /\ [][Next]_vars

-----------------------------------------------------------------------------
(* What the claims speak of, read off the log and the definition *)

LogIdx == 1..Len(log)
IsChildOf(q, p) == Len(q) = Len(p) + 1 /\ SubSeq(q, 1, Len(p)) = p
ChildPaths(p) == {Append(p, j) : j \in 1..Len(Children(NodeAt(definition, p)))}

\* _build_ui_from_dict was called for the node at q
WasBuilt(q) == \E i \in LogIdx : log[i].e = "build" /\ log[i].path = q
\* the widget factory was called for the node at q, and did not raise
WasConstructed(q) ==
    \E i \in LogIdx : log[i].e = "construct" /\ log[i].path = q /\ ~log[i].raised
ConstructorFailed(q) ==
    \E i \in LogIdx : log[i].e = "construct" /\ log[i].path = q /\ log[i].raised
ReturnedNone(q) ==
    \E i \in LogIdx : log[i].e = "return" /\ log[i].path = q /\ log[i].value = PyNone
ReturnedWidget(q) ==
    \E i \in LogIdx : log[i].e = "return" /\ log[i].path = q /\ log[i].value = Widget(q)
HasEnded(q) == \E i \in LogIdx : log[i].e \in {"return", "raise"} /\ log[i].path = q
KindAt(q) == IF HasType(NodeAt(definition, q)) THEN NodeAt(definition, q).type ELSE ""

\* the child at q gave None for a recoverable reason: unknown kind, or its constructor raised
FailedRecoverably(q) ==
    /\ ReturnedNone(q)
    /\ (KindAt(q) # "" /\ KindAt(q) \notin UiNamespace) \/ ConstructorFailed(q)

\* C1: for every parent that builds its children and every child whose build yields
\* None for a recoverable reason, every later sibling of that child is still built and
\* the parent's build returns the parent widget.
C1_SiblingsStillBuilt ==
    pc = "done" =>
        \A i \in LogIdx :
            (log[i].e = "return" /\ WasConstructed(log[i].path)
               /\ KindAt(log[i].path) # "ComboBox")
            => \A c \in ChildPaths(log[i].path) :
                   FailedRecoverably(c)
                   => /\ log[i].value = Widget(log[i].path)
                      /\ \A d \in ChildPaths(log[i].path) :
                             d[Len(d)] > c[Len(c)] => WasBuilt(d)

\* the handler name of a binding of the node at q that getattr(self, ...) cannot resolve
HasUnresolvableCallback(q) ==
    LET node == NodeAt(definition, q)
        attrs == IF "attributes" \in DOMAIN node THEN node.attributes ELSE PyDict(<<>>)
    IN /\ IsDict(attrs)
       /\ \E j \in 1..Len(attrs.v) :
              /\ Len(attrs.v[j][1]) >= 3
              /\ SubSeq(attrs.v[j][1], Len(attrs.v[j][1]) - 2, Len(attrs.v[j][1])) = <<"_", "f", "n">>
              /\ attrs.v[j][2].t = "str"
              /\ attrs.v[j][2].v \notin ControllerMethods
              /\ attrs.v[j][2].v \notin DOMAIN controller_attrs

\* C2: when a node of ComboBox, RadioCollection or default kind has an attribute whose
\* key ends in _fn and whose string value names no method of the controller, the
\* resolution error propagates out of build(node) and out of load: build(node) does not
\* return None for it and the build does not carry on.
C2_ResolutionErrorPropagates ==
    pc = "done" =>
        \A i \in LogIdx :
            (log[i].e = "build" /\ KindAt(log[i].path) \in UiNamespace \ {"Window"}
               /\ Prepare(NodeAt(definition, log[i].path)).k = "ready"
               /\ HasUnresolvableCallback(log[i].path))
            => /\ ~ReturnedNone(log[i].path)
               /\ result = RaiseOf("AttributeError")

\* the node at q opens a layout region: a container kind, or a Window that has children
OpensRegion(q) ==
    \/ KindAt(q) \in {"VStack", "HStack", "ZStack", "CollapsableFrame", "ScrollingFrame"}
    \/ KindAt(q) = "Window" /\ Children(NodeAt(definition, q)) # <<>>
ProperPrefixes(p) == [k \in 1..Len(p) |-> SubSeq(p, 1, k - 1)]
\* the regions that enclose the node at p, outermost first
OpenAround(p) == SelectSeq(ProperPrefixes(p), OpensRegion)

\* C3: for every Window node with children and every container-kind node, the layout
\* region is entered before the first child is built and exited after the last child is
\* built, also when a child's build fails; the regions open at any moment are exactly
\* those of the enclosing such nodes, and none is open once the load has ended.
C3_RegionsWellNested ==
    /\ Entering => regions = OpenAround(Top.path)
    /\ InChildren => regions = OpenAround(Append(Top.path, 1))
    /\ (pc = "building" /\ pending # NoPending) => regions = OpenAround(log[Len(log)].path)
    /\ pc = "done" =>
          /\ regions = <<>>
          /\ \A c \in LogIdx :
                (log[c].e = "construct" /\ ~log[c].raised /\ OpensRegion(log[c].path))
                => \E a \in LogIdx : a > c /\ log[a].e = "enter" /\ log[a].path = log[c].path
          /\ \A a \in LogIdx :
                log[a].e = "enter"
                => \E x \in LogIdx :
                      /\ x > a
                      /\ log[x].e = "exit"
                      /\ log[x].path = log[a].path
                      /\ \A b \in LogIdx :
                            (log[b].e \in {"build", "return", "raise"}
                               /\ IsChildOf(log[b].path, log[a].path))
                            => a < b /\ b < x

\* a child of a nested container raised, and the container's region was closed at once
C3_Witness ==
    /\ pc = "done"
    /\ regions = <<>>
    /\ \E a \in LogIdx :
          /\ log[a].e = "raise"
          /\ Len(log[a].path) = 2
          /\ a < Len(log)
          /\ log[a + 1].e = "exit"
          /\ log[a + 1].path = SubSeq(log[a].path, 1, 1)
    /\ \E a \in LogIdx : log[a].e = "enter" /\ log[a].path = <<>>

\* the item texts a ComboBox is to show: one per ComboItem child, "" when it has none
RECURSIVE ExpectedItems(_)
ExpectedItems(children) ==
    IF children = <<>> THEN <<>>
    ELSE LET child == Head(children)
             text == IF /\ "attributes" \in DOMAIN child
                        /\ child.attributes.t = "dict"
                        /\ \E j \in 1..Len(child.attributes.v) :
                              child.attributes.v[j][1] = <<"t", "e", "x", "t">>
                     THEN LET j == CHOOSE j \in 1..Len(child.attributes.v) :
                                      child.attributes.v[j][1] = <<"t", "e", "x", "t">>
                          IN child.attributes.v[j][2]
                     ELSE PyStr(<<>>)
         IN IF "type" \in DOMAIN child /\ child.type = "ComboItem"
            THEN <<text>> \o ExpectedItems(Tail(children))
            ELSE ExpectedItems(Tail(children))

IsAppendTo(p, ev) == ev.e = "append" /\ ev.path = p
AppendedTo(p) ==
    LET evs == SelectSeq(log, LAMBDA ev : IsAppendTo(p, ev))
    IN [j \in 1..Len(evs) |-> evs[j].text]

\* C4: for a ComboBox node whose constructor succeeds, with any list of children, the
\* items appended to the widget's model are exactly the text attributes of the children
\* of kind ComboItem (the empty string when absent), in child order; no child is built
\* as a widget; the callbacks are bound after the items are appended.
C4_ComboItemsAppended ==
    pc = "done" =>
        \A c \in LogIdx :
            (log[c].e = "construct" /\ ~log[c].raised /\ log[c].ui_type = "ComboBox")
            => /\ AppendedTo(log[c].path)
                    = ExpectedItems(Children(NodeAt(definition, log[c].path)))
               /\ \A q \in ChildPaths(log[c].path) : ~WasBuilt(q)
               /\ \A r \in LogIdx :
                     (log[r].e \in {"register", "no_method"} /\ log[r].path = log[c].path)
                     => \A a \in LogIdx :
                           (log[a].e = "append" /\ log[a].path = log[c].path) => a < r

\* C5: for a RadioCollection node whose constructor succeeds, every child of kind
\* RadioButton is constructed with the group widget as its radio_collection, and every
\* child is built through the generic builder, in child order, before the group's
\* callbacks are bound.
C5_RadioChildrenBuilt ==
    pc = "done" =>
        \A c \in LogIdx :
            (log[c].e = "construct" /\ ~log[c].raised /\ log[c].ui_type = "RadioCollection")
            => /\ \A q \in ChildPaths(log[c].path) : WasBuilt(q)
               /\ \A a, b \in LogIdx :
                     (log[a].e = "build" /\ log[b].e = "build"
                        /\ IsChildOf(log[a].path, log[c].path)
                        /\ IsChildOf(log[b].path, log[c].path)
                        /\ log[a].path[Len(log[a].path)] < log[b].path[Len(log[b].path)])
                     => a < b
               /\ \A k \in LogIdx :
                     (log[k].e = "construct" /\ IsChildOf(log[k].path, log[c].path)
                        /\ log[k].ui_type = "RadioButton")
                     => \E j \in 1..Len(log[k].kwargs) :
                           /\ log[k].kwargs[j][1] = KeyRadioCollection
                           /\ log[k].kwargs[j][2] = Widget(log[c].path)
               /\ \A r \in LogIdx :
                     (log[r].e \in {"register", "no_method"} /\ log[r].path = log[c].path)
                     => \A q \in ChildPaths(log[c].path) :
                           \E b \in LogIdx :
                              b < r /\ log[b].e \in {"return", "raise"} /\ log[b].path = q

IsSelfName(name) == Len(name) >= 5 /\ SubSeq(name, 1, 5) = <<"s", "e", "l", "f", ".">>

\* C6: a Window node whose name starts with self. has its widget stored as the attribute
\* of the controller named by the rest of the name, and is not in the registry; a Window
\* node with any other non-empty name is in the registry under that name, and is no
\* attribute of the controller.
C6_WindowNaming ==
    /\ (InChildren /\ KindAt(Top.path) = "Window" /\ Top.i = 1 /\ NameOf(TopNode) # <<>>)
       => LET name == NameOf(TopNode)
              rest == SubSeq(name, 6, Len(name))
          IN IF IsSelfName(name)
             THEN /\ rest \in DOMAIN controller_attrs
                  /\ controller_attrs[rest] = Widget(Top.path)
                  /\ \A i \in LogIdx : log[i].e = "store" => log[i].widget # Widget(Top.path)
             ELSE /\ name \in DOMAIN named_elements
                  /\ named_elements[name] = Widget(Top.path)
                  /\ \A i \in LogIdx :
                        log[i].e = "setattr_self" => log[i].widget # Widget(Top.path)
    /\ \A n \in DOMAIN controller_attrs :
          /\ KindAt(controller_attrs[n].v) = "Window"
          /\ NameOf(NodeAt(definition, controller_attrs[n].v)) = <<"s", "e", "l", "f", ".">> \o n
    /\ \A n \in DOMAIN named_elements :
          named_elements[n] # PriorWidget
          => ~(/\ KindAt(named_elements[n].v) = "Window"
               /\ IsSelfName(NameOf(NodeAt(definition, named_elements[n].v))))

\* a window named self.w has just been constructed, next to a registry that has an entry
C6_Witness ==
    /\ InChildren
    /\ KindAt(Top.path) = "Window"
    /\ Top.i = 1
    /\ NameOf(TopNode) = <<"s", "e", "l", "f", ".", "w">>
    /\ <<"w">> \in DOMAIN controller_attrs
    /\ controller_attrs[<<"w">>] = Widget(Top.path)
    /\ DOMAIN named_elements = {<<"l", "b">>}

StoresOf(name) == {i \in LogIdx : log[i].e = "store" /\ log[i].name = name}
LastStoreOf(name) == CHOOSE i \in StoresOf(name) : \A j \in StoresOf(name) : j <= i

\* C7: reading a name from the registry returns the value most recently written under
\* that name; reading a name never written raises AttributeError carrying the name;
\* entries are never removed.
C7_RegistryReads ==
    /\ last_read.k = "read"
       => IF StoresOf(last_read.name) = {}
          THEN /\ last_read.got.k = "raise"
               /\ last_read.got.e = "AttributeError"
               /\ last_read.got.v = PyStr(last_read.name)
          ELSE /\ last_read.got.k = "return"
               /\ last_read.got.v = log[LastStoreOf(last_read.name)].widget
    /\ \A i \in LogIdx : log[i].e = "store" => log[i].name \in DOMAIN named_elements

\* a name written more than once has been read
C7_Witness ==
    /\ last_read.k = "read"
    /\ Cardinality(StoresOf(last_read.name)) >= 2
    /\ last_read.got.k = "return"
    /\ last_read.got.v # PriorWidget

Unsupported(path) ==
    /\ ~(Len(path) >= 5 /\ SubSeq(path, Len(path) - 4, Len(path)) = <<".", "j", "s", "o", "n">>)
    /\ ~(Len(path) >= 4 /\ SubSeq(path, Len(path) - 3, Len(path)) = <<".", "x", "m", "l">>)

\* C8: for any path ending in neither .json nor .xml (compared case-sensitively), load
\* raises a ValueError, no widget is constructed, and the registry and the attributes of
\* the controller are unchanged.
C8_UnsupportedFormat ==
    Unsupported(ui_file_path)
    => /\ pc \in {"idle", "done"}
       /\ stack = <<>>
       /\ \A i \in LogIdx : log[i].e = "store" /\ log[i].widget = PriorWidget
       /\ Len(log) <= 1
       /\ named_elements = (IF log = <<>> THEN <<>> ELSE (<<"l", "b">> :> PriorWidget))
       /\ controller_attrs = <<>>
       /\ pc = "done" => result = RaiseOf("ValueError")

\* a load of ui.JSON has ended in ValueError and the earlier registry entry is still there
C8_Witness ==
    /\ pc = "done"
    /\ ui_file_path = <<"u", "i", ".", "J", "S", "O", "N">>
    /\ input.k = "json"
    /\ result = RaiseOf("ValueError")
    /\ named_elements = (<<"l", "b">> :> PriorWidget)

\* the bindings of the node at q: its attributes whose key ends in _fn, in order
IsFnItem(kv) == Len(kv[1]) >= 3 /\ SubSeq(kv[1], Len(kv[1]) - 2, Len(kv[1])) = <<"_", "f", "n">>
FnItems(q) ==
    LET node == NodeAt(definition, q)
    IN IF "attributes" \in DOMAIN node /\ node.attributes.t = "dict"
       THEN SelectSeq(node.attributes.v, IsFnItem)
       ELSE <<>>
IsBindEvent(q, ev) == ev.e \in {"register", "no_method"} /\ ev.path = q
BindEvents(q) == SelectSeq(log, LAMBDA ev : IsBindEvent(q, ev))
CaughtAt(q) == \E z \in LogIdx : log[z].e = "error" /\ log[z].path = q
\* what getattr(self, name) gave for a binding written as a string
HandlerOf(value) ==
    IF value.v \in DOMAIN controller_attrs THEN controller_attrs[value.v]
    ELSE [t |-> "callable", v |-> value.v]

\* C11: binding on a widget with a model attempts every binding independently: each
\* binding whose name is a method of the model has that method called exactly once with
\* the handler as sole argument, a binding whose name the model lacks is skipped, and a
\* registration call that raises is caught, so that all remaining bindings are still
\* attempted and the binding step itself never raises.
C11_EveryBindingAttempted ==
    pc = "done" =>
        \A c \in LogIdx :
            (log[c].e = "construct" /\ ~log[c].raised
               /\ log[c].ui_type \in {"ComboBox", "RadioCollection", "StringField"}
               /\ ~CaughtAt(log[c].path))
            => LET fns == FnItems(log[c].path)
                   evs == BindEvents(log[c].path)
               IN /\ Len(evs) = Len(fns)
                  /\ \A j \in 1..Len(fns) :
                        /\ evs[j].key = fns[j][1]
                        /\ evs[j].e = "register"
                              <=> fns[j][1] \in {<<"add_value_changed", "_", "f", "n">>,
                                                 <<"add_end_edit", "_", "f", "n">>}
                        /\ evs[j].e = "register" => evs[j].handler = HandlerOf(fns[j][2])
                  /\ ReturnedWidget(log[c].path)

\* a registration raised, a later binding of the same widget was registered all the
\* same, one binding was skipped for lack of the method, and the build gave the widget
C11_Witness ==
    /\ pc = "done"
    /\ \E i, j, k \in LogIdx :
          /\ i < j
          /\ log[i].e = "register" /\ log[i].raised
          /\ log[j].e = "register" /\ ~log[j].raised /\ log[j].path = log[i].path
          /\ log[k].e = "no_method" /\ log[k].path = log[i].path
          /\ ReturnedWidget(log[i].path)

RegistrationsOf(q, key) ==
    {r \in LogIdx : log[r].e = "register" /\ log[r].path = q /\ log[r].key = key}

\* C12: for a node of the default strategy, each extracted callback reaches the widget by
\* exactly one route: for a kind outside the container set it is a keyword of the
\* constructor and is not registered through the widget's model as well; for a container
\* kind it is registered through the model and is no keyword of the constructor.
C12_OneRoutePerCallback ==
    pc = "done" =>
        \A c \in LogIdx :
            (log[c].e = "construct" /\ ~log[c].raised
               /\ log[c].ui_type \notin {"Window", "ComboBox", "RadioCollection"})
            => \A j \in 1..Len(FnItems(log[c].path)) :
                  LET key == FnItems(log[c].path)[j][1]
                      keyword == \E i \in 1..Len(log[c].kwargs) : log[c].kwargs[i][1] = key
                  IN IF log[c].ui_type \in {"VStack", "HStack", "ZStack", "ScrollingFrame",
                                            "CollapsableFrame"}
                     THEN ~keyword
                          /\ (~CaughtAt(log[c].path)
                                => Cardinality(RegistrationsOf(log[c].path, key)) = 1)
                     ELSE keyword /\ RegistrationsOf(log[c].path, key) = {}

\* the node at q carries an `attributes` value that is no mapping
HasMalformedAttributes(q) ==
    /\ "attributes" \in DOMAIN NodeAt(definition, q)
    /\ NodeAt(definition, q).attributes.t # "dict"
\* the children of the nodes whose constructor succeeded, and the root
ReachablePaths ==
    {<<>>} \cup UNION {ChildPaths(log[c].path) :
                          c \in {i \in LogIdx : log[i].e = "construct" /\ ~log[i].raised}}
ParentOf(q) == SubSeq(q, 1, Len(q) - 1)
\* the parent's child loop came to the child at q: every earlier sibling's build returned
TurnReached(q) ==
    \/ q = <<>>
    \/ q[Len(q)] = 1
    \/ \E i \in LogIdx :
          /\ log[i].e = "return"
          /\ log[i].path = Append(ParentOf(q), q[Len(q)] - 1)
CountKind(children, kind) ==
    Cardinality({j \in 1..Len(children) :
                    "type" \in DOMAIN children[j] /\ children[j].type = kind})

\* C13: for every node at any position in the tree, including a child of a ComboBox or
\* of a RadioCollection, an attributes value that is not a mapping is treated as an empty
\* attribute set: the node is built as if it had no attributes, and its parent and
\* siblings are built as they would be then (the parent does not return None because of
\* it).
C13_MalformedAttributesAsEmpty ==
    pc = "done" =>
        \A q \in ReachablePaths :
            HasMalformedAttributes(q)
            => IF q # <<>> /\ KindAt(ParentOf(q)) = "ComboBox"
               THEN /\ ReturnedWidget(ParentOf(q))
                    /\ Len(AppendedTo(ParentOf(q)))
                          = CountKind(Children(NodeAt(definition, ParentOf(q))), "ComboItem")
               ELSE TurnReached(q)
                    => /\ WasBuilt(q)
                       /\ \A c \in LogIdx :
                             (log[c].e = "construct" /\ log[c].path = q)
                             => /\ log[c].args = <<>>
                                /\ \A i \in 1..Len(log[c].kwargs) :
                                      log[c].kwargs[i][1] = <<"radio_collection">>

\* the node at q has a style string that ast.literal_eval does not turn into a value
HasUnparsableStyle(q) ==
    LET node == NodeAt(definition, q)
    IN /\ "attributes" \in DOMAIN node
       /\ node.attributes.t = "dict"
       /\ \E j \in 1..Len(node.attributes.v) :
             /\ node.attributes.v[j][1] = <<"s", "t", "y", "l", "e">>
             /\ node.attributes.v[j][2].t = "str"
             /\ node.attributes.v[j][2].v \in {<<"{oops">>, <<"blue">>, <<"{[1]: 2}">>}

\* C14: for every node whose style attribute is a string, any failure to parse that
\* string is recovered: the node is constructed with an empty mapping as its style,
\* its build raises nothing, and neither its parent nor its siblings are lost.
C14_StyleFailureRecovered ==
    pc = "done" =>
        \A b \in LogIdx :
            (log[b].e = "build" /\ HasUnparsableStyle(log[b].path)
               /\ KindAt(log[b].path) \in UiNamespace)
            => /\ ~\E r \in LogIdx : log[r].e = "raise" /\ log[r].path = log[b].path
               /\ \E c \in LogIdx :
                     /\ log[c].e = "construct"
                     /\ log[c].path = log[b].path
                     /\ \E i \in 1..Len(log[c].kwargs) :
                           /\ log[c].kwargs[i][1] = <<"s", "t", "y", "l", "e">>
                           /\ log[c].kwargs[i][2] = [t |-> "dict", v |-> <<>>]
               /\ log[b].path # <<>> => ~CaughtAt(ParentOf(log[b].path))

IsProperPrefix(q, r) == Len(q) < Len(r) /\ SubSeq(r, 1, Len(q)) = q
\* the writes of the widget of the node at q to the registry
OwnStores(q) == {i \in LogIdx : log[i].e = "store" /\ log[i].widget = [t |-> "widget", v |-> q]}

\* C15: for every node of a kind other than Window that has a non-empty name, the node's
\* own registration runs if and only if its build returns a widget; it runs after all of
\* the node's descendants have been built and after the model value is set and the
\* callbacks are bound; the value written is the widget that the build returns; a node
\* whose build returns None never writes its own name.
C15_RegistrationLast ==
    pc = "done" =>
        \A b \in LogIdx :
            (log[b].e = "build" /\ KindAt(log[b].path) # "Window")
            => LET q == log[b].path
                   name == NameOf(NodeAt(definition, q))
               IN /\ OwnStores(q) # {} <=> (name # <<>> /\ ReturnedWidget(q))
                  /\ \A s \in OwnStores(q) :
                        /\ OwnStores(q) = {s}
                        /\ log[s].name = name
                        /\ \A i \in LogIdx :
                              (\/ /\ log[i].e \notin {"store", "setattr_self"}
                                  /\ \/ IsProperPrefix(q, log[i].path)
                                     \/ /\ log[i].path = q
                                        /\ log[i].e \in {"set_value", "register", "no_method",
                                                         "append", "exit"}
                               \/ /\ log[i].e \in {"store", "setattr_self"}
                                  /\ log[i].widget.v # <<0>>
                                  /\ IsProperPrefix(q, log[i].widget.v))
                              => i < s
                        /\ \E r \in LogIdx :
                              r > s /\ log[r].e = "return" /\ log[r].path = q

\* a named field had its value set and a callback bound, then wrote its name and was
\* returned; another named node of the same document returned None and wrote nothing
C15_Witness ==
    /\ pc = "done"
    /\ \E s, v, r \in LogIdx :
          /\ log[s].e = "store" /\ log[s].widget.v # <<0>>
          /\ KindAt(log[s].widget.v) = "StringField"
          /\ log[v].e = "set_value" /\ log[v].path = log[s].widget.v /\ v < s
          /\ log[r].e = "register" /\ log[r].path = log[s].widget.v /\ r < s
    /\ \E b \in LogIdx :
          /\ log[b].e = "build"
          /\ NameOf(NodeAt(definition, log[b].path)) # <<>>
          /\ ReturnedNone(log[b].path)
          /\ OwnStores(log[b].path) = {}

\* every path of the tree under node
RECURSIVE PathsOf(_)
PathsOf(node) ==
    {<<>>} \cup UNION {{<<j>> \o r : r \in PathsOf(Children(node)[j])} :
                         j \in 1..Len(Children(node))}
\* the factory was called for the node at q, whatever came of it
FactoryCalls(q) == {c \in LogIdx : log[c].e = "construct" /\ log[c].path = q}
\* document pre-order: a node before its descendants, children in their listed order
PreOrderBefore(p, q) ==
    \/ IsProperPrefix(p, q)
    \/ \E k \in 1..Len(p) :
          /\ k <= Len(q)
          /\ SubSeq(p, 1, k - 1) = SubSeq(q, 1, k - 1)
          /\ p[k] < q[k]
NoUsableKind(q) == KindAt(q) = "" \/ KindAt(q) \notin UiNamespace
IsComboChild(q) == q # <<>> /\ KindAt(ParentOf(q)) = "ComboBox"
\* the nodes the factory is never to be called for
NeverConstructed(q) ==
    \/ NoUsableKind(q)
    \/ IsComboChild(q)
    \/ \E k \in 0..(Len(q) - 1) :
          LET a == SubSeq(q, 1, k)
          IN NoUsableKind(a) \/ IsComboChild(a) \/ ConstructorFailed(a)

\* C16: the build invokes the widget factory at most once per node, and in depth-first
\* document pre-order; the nodes whose factory is never invoked are exactly the nodes
\* without a kind or of unknown kind, the children of a ComboBox, and the descendants of
\* a node that has no kind, has an unknown kind, is a ComboBox child, or whose own
\* constructor failed.
C16_FactoryCallsPreOrder ==
    (pc = "done" /\ definition # PyNone) =>
        /\ \A q \in PathsOf(definition) :
              /\ Cardinality(FactoryCalls(q)) <= 1
              /\ FactoryCalls(q) = {} <=> NeverConstructed(q)
        /\ \A c, d \in LogIdx :
              (log[c].e = "construct" /\ log[d].e = "construct" /\ c < d)
              => PreOrderBefore(log[c].path, log[d].path)

====
